---- MODULE Spec2Model ----
(***************************************************************************)
(* Entity resolution by name-similarity clustering                         *)
(* (packages/ai_engineering/src/archive/people_resolution.py), BIO         *)
(* labelling (archive/preprocess.py) and the batch loop of the inference   *)
(* script (scripts/run_inference.py).                                      *)
(*                                                                         *)
(* The specifications share the variables below:                           *)
(*   SpecCluster   - hierarchical_clustering on a similarity matrix        *)
(*   SpecRep       - find_representative on a clustered DataFrame          *)
(*   SpecValidate  - validate_cluster_attributes on a clustered DataFrame  *)
(*   SpecNormalize - normalize_name / normalize_dutch_name on a string     *)
(*   SpecScore     - fuzz.partial_ratio on two normalized names            *)
(*   SpecMatrix    - compute_similarity_matrix, one pair per step          *)
(*   SpecGroup     - group_entities: matrix, clustering, representatives   *)
(*   SpecBio       - text_to_bio on a text and its entity spans            *)
(*   SpecInference - the batch loop of run_inference.main                  *)
(*                                                                         *)
(* Distances are kept exactly, in hundredths, as a sum over pairs divided  *)
(* by the number of pairs.  The binary rounding of 1 - sim/100.0 is kept   *)
(* as an infinitesimal (eps) that decides comparisons between distances    *)
(* that are equal as reals; the rounding of the averages themselves is not *)
(* modelled.                                                               *)
(***************************************************************************)
EXTENDS Integers, Sequences, FiniteSets, TLC

VARIABLES
    pc,               \* which call the program is in / has finished
    sim_matrix,       \* similarity matrix handed to hierarchical_clustering
    clusterings,      \* threshold -> cluster_ids returned for sim_matrix
    linkage_matrix,   \* linkage matrix returned by the last clustering
    df,               \* the DataFrame: a sequence of rows (column -> value)
    columns,          \* df.columns, in order
    col_name,         \* the configured name field
    filter_cols,      \* argument filter_cols of validate_cluster_attributes
    list_columns,     \* argument list_columns of validate_cluster_attributes
    conflict_records, \* rows of the DataFrame validate_cluster_attributes returns
    outcome,          \* "none", "returned" or the exception raised
    names,            \* the strings a call is given (names, or one raw string)
    loop,             \* [i, j] of the pair loop of compute_similarity_matrix
    calls,            \* the scorer calls made so far, [i, j] each
    result,           \* the value the last call returned
    files,            \* the files written and read, by path
    text,             \* argument text of text_to_bio
    entities,         \* argument entities of text_to_bio
    items,            \* the input items of run_inference.main
    batch_size,       \* cfg["batch_size"]
    missing_doc,      \* the id lists of the batches main gave up on
    results           \* the output records main collected

vars == <<pc, sim_matrix, clusterings, linkage_matrix, df, columns, col_name,
          filter_cols, list_columns, conflict_records, outcome,
          names, loop, calls, result, files,
          text, entities, items, batch_size, missing_doc, results>>

\* ------------------------------ bounds ------------------------------------
MaxN == 3         \* records handed to hierarchical_clustering
MaxCalls == 2     \* clusterings of one matrix at different thresholds
MaxRecords == 4   \* rows of the DataFrame
MaxPieces == 3    \* pieces of a raw string

\* scores fuzz.partial_ratio can return, a sample of 0..100
SimValues == {0, 85, 100}
\* distance thresholds in hundredths (0.15 is 15); outside [0,1] included
Thresholds == {-10, 0, 15, 50, 100, 150}

\* a DataFrame cell: NaN / None, a Python str or a Python list
NULL == [na |-> TRUE]
Str(v) == [str |-> v]
List(v) == [list |-> v]
NoNode == -1

\* ------------------------- hierarchical_clustering -------------------------
\* dist_matrix = 1 - sim_matrix / 100.0, in hundredths
Distance(sim) == 100 - sim

\* the double 1 - s/100.0 against the double nearest to (100 - s)/100, for an
\* integer score s: above it for the first set, below it for the second
RoundedUp == {18, 41, 42, 43, 57, 58, 59, 69, 70, 71,
              82, 83, 84, 85, 94, 95, 96, 97, 98, 99}
RoundedDown == {7, 32, 33, 34, 54, 55, 56, 66, 67, 68,
                77, 78, 79, 80, 81, 89, 90, 91, 92, 93}
RoundErr(sim) ==
    IF sim \in RoundedUp THEN 1 ELSE IF sim \in RoundedDown THEN -1 ELSE 0

\* an entry of the distance matrix: a sum of distances and of their roundings
Entry(num, eps) == [num |-> num, eps |-> eps]

\* np.fill_diagonal(dist_matrix, 0.0) on the converted matrix
DistMatrix(sim, n) ==
    [i \in 0..(n - 1) |->
        [j \in 0..(n - 1) |->
            IF i = j THEN Entry(0, 0)
            ELSE Entry(Distance(sim[i][j]), RoundErr(sim[i][j]))]]

\* a cluster distance is (num + eps * infinitesimal) / den, den > 0
Dist3(num, eps, den) == [num |-> num, eps |-> eps, den |-> den]
Dist(num, den) == Dist3(num, 0, den)
DistLess(a, b) ==
    \/ a.num * b.den < b.num * a.den
    \/ a.num * b.den = b.num * a.den /\ a.eps * b.den < b.eps * a.den
DistLeqMutant(a, b) == DistLess(a, b)
DistLeq(a, b) == ~DistLess(b, a)

\* new_dist for method="average":
\* (nx * d(i,x) + ny * d(i,y)) / (nx + ny), d kept as sums over pairs
NewDist(D, i, x, y) ==
    Entry(D[i][x].num + D[i][y].num, D[i][x].eps + D[i][y].eps)

\* distance between the clusters held in slots x and i
SlotDist(D, size, x, i) == Dist3(D[x][i].num, D[x][i].eps, size[x] * size[i])

\* the scan "for i in range(n): if dist < current_min" of nn_chain:
\* the first slot at the least distance strictly below the start value
RECURSIVE ScanNearest(_, _, _, _, _, _, _, _)
ScanNearest(D, size, n, x, i, y, hasMin, curMin) ==
    IF i >= n THEN [y |-> y, min |-> curMin]
    ELSE IF size[i] = 0 \/ i = x
         THEN ScanNearest(D, size, n, x, i + 1, y, hasMin, curMin)
         ELSE LET d == SlotDist(D, size, x, i) IN
              IF ~hasMin \/ DistLess(d, curMin)
              THEN ScanNearest(D, size, n, x, i + 1, i, TRUE, d)
              ELSE ScanNearest(D, size, n, x, i + 1, y, hasMin, curMin)

\* follow the chain of nearest neighbours until two are mutual
RECURSIVE GrowChain(_, _, _, _)
GrowChain(D, size, n, chain) ==
    LET len == Len(chain)
        x == chain[len]
        prev == IF len > 1 THEN chain[len - 1] ELSE NoNode
        start == IF len > 1 THEN SlotDist(D, size, x, prev) ELSE Dist(0, 1)
        near == ScanNearest(D, size, n, x, 0, prev, len > 1, start)
    IN  IF len > 1 /\ near.y = prev
        THEN [x |-> x, y |-> near.y, min |-> near.min, chain |-> chain]
        ELSE GrowChain(D, size, n, Append(chain, near.y))

FirstActive(size, n) == CHOOSE i \in 0..(n - 1) :
    size[i] > 0 /\ \A j \in 0..(n - 1) : size[j] > 0 => i <= j

\* the n - 1 merges of nn_chain; rows are [x, y, dist, size]
RECURSIVE NNChain(_, _, _, _, _, _)
NNChain(D, size, n, chain, k, Z) ==
    IF k >= n - 1 THEN Z
    ELSE
        LET chain0 == IF Len(chain) = 0 THEN <<FirstActive(size, n)>> ELSE chain
            g == GrowChain(D, size, n, chain0)
            x == IF g.x > g.y THEN g.y ELSE g.x
            y == IF g.x > g.y THEN g.x ELSE g.y
            nx == size[x]
            ny == size[y]
            row == [x |-> x, y |-> y, dist |-> g.min, size |-> nx + ny]
            size2 == [size EXCEPT ![x] = 0, ![y] = nx + ny]
            D2 == [i \in 0..(n - 1) |-> [j \in 0..(n - 1) |->
                     IF i = y /\ j # y /\ size2[j] # 0 THEN NewDist(D, j, x, y)
                     ELSE IF j = y /\ i # y /\ size2[i] # 0 THEN NewDist(D, i, x, y)
                     ELSE D[i][j]]]
            rest == SubSeq(g.chain, 1, Len(g.chain) - 2)
        IN  NNChain(D2, size2, n, rest, k + 1, Append(Z, row))

\* np.argsort(Z[:, 2], kind='mergesort'): stable insertion by distance
RECURSIVE InsertRow(_, _)
InsertRow(row, Z) ==
    IF Z = <<>> THEN <<row>>
    ELSE IF DistLess(row.dist, Z[1].dist) THEN <<row>> \o Z
         ELSE <<Z[1]>> \o InsertRow(row, Tail(Z))

RECURSIVE SortRows(_)
SortRows(Z) ==
    IF Z = <<>> THEN <<>>
    ELSE InsertRow(Z[Len(Z)], SortRows(SubSeq(Z, 1, Len(Z) - 1)))

\* label(Z, n): union-find relabelling of the slots by node ids n, n+1, ...
RECURSIVE Label(_, _, _, _)
Label(Z, n, k, root) ==
    IF k > Len(Z) THEN <<>>
    ELSE
        LET xr == root[Z[k].x]
            yr == root[Z[k].y]
            row == [x |-> IF xr < yr THEN xr ELSE yr,
                    y |-> IF xr < yr THEN yr ELSE xr,
                    dist |-> Z[k].dist, size |-> Z[k].size]
            root2 == [i \in 0..(n - 1) |->
                        IF root[i] \in {xr, yr} THEN n + k - 1 ELSE root[i]]
        IN  <<row>> \o Label(Z, n, k + 1, root2)

\* linkage(condensed_dist, method="average") on a distance matrix
LinkageOf(D, n) ==
    LET size == [i \in 0..(n - 1) |-> 1]
        Z == NNChain(D, size, n, <<>>, 0, <<>>)
    IN  Label(SortRows(Z), n, 1, [i \in 0..(n - 1) |-> i])

\* linkage(squareform(dist_matrix), method="average")
Linkage(sim, n) == LinkageOf(DistMatrix(sim, n), n)

\* get_max_dist_for_each_cluster: the largest merge distance in the subtree
\* of the node of row k
RECURSIVE MaxDist(_, _, _)
MaxDist(Z, n, k) ==
    LET own == Z[k].dist
        l == IF Z[k].x >= n THEN MaxDist(Z, n, Z[k].x - n + 1) ELSE own
        m == IF DistLess(own, l) THEN l ELSE own
        r == IF Z[k].y >= n THEN MaxDist(Z, n, Z[k].y - n + 1) ELSE own
    IN  IF DistLess(m, r) THEN r ELSE m

\* "MC[root] <= cutoff" of cluster_monocrit: the subtree is one flat cluster
IsClusterMutant(Z, n, k, cutoff) == DistLeq(Dist(cutoff, 1), MaxDist(Z, n, k))
IsCluster(Z, n, k, cutoff) == DistLeq(MaxDist(Z, n, k), Dist(cutoff, 1))

\* the two "if i_lc < n" / "if i_rc < n" blocks of cluster_monocrit: label the
\* leaf children of row k, each a cluster of its own outside a flat cluster
LabelLeavesMutant(Z, n, k, inCluster, T, ncl) ==
    LET lc == Z[k].x
        n1 == IF lc < n /\ ~inCluster THEN ncl + 1 ELSE ncl
        T1 == IF lc < n THEN [T EXCEPT ![lc] = n1] ELSE T
    IN  [T |-> T1, ncl |-> n1]
LabelLeaves(Z, n, k, inCluster, T, ncl) ==
    LET lc == Z[k].x
        rc == Z[k].y
        n1 == IF lc < n /\ ~inCluster THEN ncl + 1 ELSE ncl
        T1 == IF lc < n THEN [T EXCEPT ![lc] = n1] ELSE T
        n2 == IF rc < n /\ ~inCluster THEN n1 + 1 ELSE n1
        T2 == IF rc < n THEN [T1 EXCEPT ![rc] = n2] ELSE T1
    IN  [T |-> T2, ncl |-> n2]

\* cluster_monocrit: depth-first from the root; internal children are
\* finished (left, then right) before the leaf children are labelled
RECURSIVE ClusterMonocrit(_, _, _, _, _, _, _)
ClusterMonocrit(Z, n, k, cutoff, leader, T, ncl) ==
    LET found == ~leader /\ IsCluster(Z, n, k, cutoff)
        n0 == IF found THEN ncl + 1 ELSE ncl
        inCluster == leader \/ found
        a == IF Z[k].x >= n
             THEN ClusterMonocrit(Z, n, Z[k].x - n + 1, cutoff, inCluster, T, n0)
             ELSE [T |-> T, ncl |-> n0]
        b == IF Z[k].y >= n
             THEN ClusterMonocrit(Z, n, Z[k].y - n + 1, cutoff, inCluster, a.T, a.ncl)
             ELSE a
    IN  LabelLeaves(Z, n, k, inCluster, b.T, b.ncl)

\* fcluster(linkage_matrix, t=distance_threshold, criterion="distance");
\* T starts as zeros and the traversal starts at the root 2n - 2
FCluster(Z, t) ==
    LET n == Len(Z) + 1
    IN  ClusterMonocrit(Z, n, n - 1, t, FALSE, [i \in 0..(n - 1) |-> 0], 0).T

\* ------------------------------ SpecCluster --------------------------------
\* the matrices compute_similarity_matrix builds: symmetric, zero diagonal
Pairs(n) == {p \in (0..(n - 1)) \X (0..(n - 1)) : p[1] < p[2]}
SimMatrices(n) ==
    {[i \in 0..(n - 1) |-> [j \in 0..(n - 1) |->
        IF i = j THEN 0 ELSE IF i < j THEN u[<<i, j>>] ELSE u[<<j, i>>]]] :
     u \in [Pairs(n) -> SimValues]}

Size(m) == Cardinality(DOMAIN m)

NoDf == <<>>

\* the caller's sim_matrix after "dist_matrix = 1 - (sim_matrix / 100.0)" and
\* "np.fill_diagonal(dist_matrix, 0.0)": the expression builds a new array and
\* the diagonal is filled in that array
InputAfterConversionMutant(sim) ==
    [i \in DOMAIN sim |->
        [j \in DOMAIN sim |-> IF i = j THEN 0 ELSE Distance(sim[i][j])]]
InputAfterConversion(sim) == sim

\* squareform of a matrix of fewer than two records is empty, and linkage
\* raises ValueError on an empty condensed distance matrix
HasObservations(n) == n >= 2

\* text_to_bio and run_inference.main are not running
NoText == text = <<>> /\ entities = <<>>
NoItems == items = <<>> /\ batch_size = 0 /\ missing_doc = <<>> /\ results = <<>>

InitCluster ==
    /\ pc = "cluster"
    /\ \E n \in 0..MaxN : sim_matrix \in SimMatrices(n)
    /\ clusterings = <<>>
    /\ linkage_matrix = <<>>
    /\ df = NoDf
    /\ columns = <<>>
    /\ col_name = NULL
    /\ filter_cols = NULL
    /\ list_columns = <<>>
    /\ conflict_records = <<>>
    /\ outcome = "none"
    /\ names = <<>>
    /\ loop = <<>>
    /\ calls = <<>>
    /\ result = NULL
    /\ files = <<>>
    /\ NoText
    /\ NoItems

\* hierarchical_clustering(sim_matrix, distance_threshold)
HierarchicalClustering(distance_threshold) ==
    /\ pc = "cluster"
    /\ distance_threshold \notin DOMAIN clusterings
    /\ Cardinality(DOMAIN clusterings) < MaxCalls
    /\ IF HasObservations(Size(sim_matrix))
       THEN /\ linkage_matrix' = Linkage(sim_matrix, Size(sim_matrix))
            /\ result' = <<FCluster(linkage_matrix', distance_threshold),
                           linkage_matrix'>>
            /\ clusterings' = (distance_threshold :> result'[1]) @@ clusterings
            /\ outcome' = "returned"
            /\ pc' = pc
       ELSE /\ outcome' = "ValueError"
            /\ pc' = "failed"
            /\ UNCHANGED <<linkage_matrix, clusterings, result>>
    /\ sim_matrix' = InputAfterConversion(sim_matrix)
    /\ UNCHANGED <<text, entities, items, batch_size, missing_doc, results,
                 df, columns, col_name, filter_cols, list_columns,
                   conflict_records, names, loop, calls, files>>

NextCluster == \E t \in Thresholds : HierarchicalClustering(t)

SpecCluster == InitCluster /\ [][NextCluster]_vars

\* --------------------------- the DataFrame ---------------------------------
\* a row maps column names to cells
Range(f) == {f[i] : i \in DOMAIN f}
Names == {"a", "ab", "ba", "abc"}
NameFields == {"name", "canonical_name"}
ClusterIdValues == {1, 2}

\* df.groupby(cluster_col): the group keys, sorted ascending (sort=True)
RECURSIVE SortedSeq(_)
SortedSeq(S) ==
    IF S = {} THEN <<>>
    ELSE LET m == CHOOSE x \in S : \A y \in S : x <= y
         IN  <<m>> \o SortedSeq(S \ {m})

\* the keys in the order their first row occurs (what sort=False would give)
RECURSIVE FirstSeenKeys(_, _)
FirstSeenKeys(d, seen) ==
    IF d = <<>> THEN <<>>
    ELSE IF d[1].cluster_id \in seen THEN FirstSeenKeys(Tail(d), seen)
         ELSE <<d[1].cluster_id>> \o FirstSeenKeys(Tail(d), seen \cup {d[1].cluster_id})

GroupKeysMutant(d) == FirstSeenKeys(d, {})
GroupKeys(d) == SortedSeq({d[i].cluster_id : i \in DOMAIN d})

\* the index labels of the rows of one group, in row order
GroupIdx(d, cid) == {i \in DOMAIN d : d[i].cluster_id = cid}

\* ---------------------------- find_representative --------------------------
\* group[col_name].str.len()
StrLen(cell) == Len(cell.str)

\* group[col_name].str.len().idxmax(): the first row of greatest length
IdxMaxMutant(d, col, idx) == CHOOSE i \in idx : \A j \in idx :
    /\ StrLen(d[i][col]) >= StrLen(d[j][col])
    /\ StrLen(d[i][col]) = StrLen(d[j][col]) => i >= j
IdxMax(d, col, idx) == CHOOSE i \in idx : \A j \in idx :
    /\ StrLen(d[i][col]) >= StrLen(d[j][col])
    /\ StrLen(d[i][col]) = StrLen(d[j][col]) => i <= j

\* representative = group[col_name].loc[...idxmax()]; cluster_reps[cid]
ClusterReps(d, col) ==
    [cid \in {d[i].cluster_id : i \in DOMAIN d} |->
        d[IdxMax(d, col, GroupIdx(d, cid))][col]]

\* df["cluster_rep"] = df[cluster_col].map(cluster_reps)
WithClusterRep(d, col) ==
    [i \in DOMAIN d |-> ("cluster_rep" :> ClusterReps(d, col)[d[i].cluster_id]) @@ d[i]]

RepRows(col) == {(col :> Str(nm)) @@ [cluster_id |-> c] : nm \in Names, c \in ClusterIdValues}

RECURSIVE SeqsUpTo(_, _)
SeqsUpTo(S, n) ==
    IF n = 0 THEN {<<>>}
    ELSE LET shorter == SeqsUpTo(S, n - 1)
         IN  shorter \cup {Append(q, x) : q \in {r \in shorter : Len(r) = n - 1}, x \in S}

InitRep ==
    /\ pc = "find_representative"
    /\ col_name \in NameFields
    /\ df \in (SeqsUpTo(RepRows(col_name), MaxRecords) \ {<<>>})
    /\ columns = <<col_name, "cluster_id">>
    /\ sim_matrix = <<>>
    /\ clusterings = <<>>
    /\ linkage_matrix = <<>>
    /\ filter_cols = NULL
    /\ list_columns = <<>>
    /\ conflict_records = <<>>
    /\ outcome = "none"
    /\ names = <<>>
    /\ loop = <<>>
    /\ calls = <<>>
    /\ result = NULL
    /\ files = <<>>
    /\ NoText
    /\ NoItems

\* find_representative(df, col_name): the caller's df gets the new column
FindRepresentative ==
    /\ pc = "find_representative"
    /\ df' = WithClusterRep(df, col_name)
    /\ columns' = Append(columns, "cluster_rep")
    /\ result' = df'
    /\ pc' = "done"
    /\ outcome' = "returned"
    /\ UNCHANGED <<text, entities, items, batch_size, missing_doc, results,
                 sim_matrix, clusterings, linkage_matrix, col_name, filter_cols,
                   list_columns, conflict_records, names, loop, calls,
                   files>>

NextRep == FindRepresentative

SpecRep == InitRep /\ [][NextRep]_vars

\* ------------------------ validate_cluster_attributes ----------------------
\* if not isinstance(filter_cols, list): filter_cols = [filter_cols]
FilterList(arg) == IF arg.list THEN arg.val ELSE <<arg.val>>

\* assert 'name' not in filter_cols
NameGuardMutant(fc) == fc[1] # "name"
NameGuard(fc) == "name" \notin Range(fc)

\* for col in df.columns: if col not in filter_cols: continue
ValidatedColumnsMutant(cols, fc) == SelectSeq(fc, LAMBDA c : c \in Range(cols))
ValidatedColumns(cols, fc) == SelectSeq(cols, LAMBDA c : c \in Range(fc))

\* group[col].dropna(): the non-null cells of the cluster, in row order
RECURSIVE DropNa(_, _, _)
DropNa(d, cid, col) ==
    IF d = <<>> THEN <<>>
    ELSE IF d[1].cluster_id = cid /\ d[1][col] # NULL
         THEN <<d[1][col]>> \o DropNa(Tail(d), cid, col)
         ELSE DropNa(Tail(d), cid, col)

\* if non_null_values.empty: continue
IsEmptyMutant(values) == FALSE
IsEmpty(values) == values = <<>>

\* non_null_values.unique(): the distinct values in order of appearance
RECURSIVE Unique(_, _)
Unique(values, seen) ==
    IF values = <<>> THEN <<>>
    ELSE IF values[1] \in seen THEN Unique(Tail(values), seen)
         ELSE <<values[1]>> \o Unique(Tail(values), seen \cup {values[1]})

\* if len(unique_values) > 1
HasScalarConflictMutant(unique_values) == Len(unique_values) >= 1
HasScalarConflict(unique_values) == Len(unique_values) > 1

\* lists.append(set(val)) for each non-null value
Sets(values) == [i \in DOMAIN values |-> Range(values[i].list)]

\* set.intersection(*lists) if lists else set()
CommonElementsMutant(lists) ==
    IF lists = <<>> THEN {} ELSE UNION {lists[i] : i \in DOMAIN lists}
CommonElements(lists) ==
    IF lists = <<>> THEN {}
    ELSE {e \in lists[1] : \A i \in DOMAIN lists : e \in lists[i]}

ConflictRecord(cid, col, values) ==
    [cluster_id |-> cid, attribute |-> col, conflicting_values |-> values]

\* the body of the column loop: no record or one record for (cluster, column);
\* list(l) of a set has no defined order, so a list payload keeps the sets
ColumnConflicts(d, cid, col, listcols) ==
    LET non_null_values == DropNa(d, cid, col) IN
    IF IsEmpty(non_null_values) THEN <<>>
    ELSE IF col \in Range(listcols)
         THEN LET lists == Sets(non_null_values) IN
              IF CommonElements(lists) = {}
              THEN <<ConflictRecord(cid, col, lists)>>
              ELSE <<>>
         ELSE LET unique_values == Unique(non_null_values, {}) IN
              IF HasScalarConflict(unique_values)
              THEN <<ConflictRecord(cid, col, [i \in DOMAIN unique_values |->
                                                  unique_values[i].str])>>
              ELSE <<>>

RECURSIVE ClusterConflicts(_, _, _, _)
ClusterConflicts(d, cid, cols, listcols) ==
    IF cols = <<>> THEN <<>>
    ELSE ColumnConflicts(d, cid, cols[1], listcols)
         \o ClusterConflicts(d, cid, Tail(cols), listcols)

\* for cluster_id, group in df.groupby(cluster_col): for col in df.columns
RECURSIVE AllConflicts(_, _, _, _)
AllConflicts(d, keys, cols, listcols) ==
    IF keys = <<>> THEN <<>>
    ELSE ClusterConflicts(d, keys[1], cols, listcols)
         \o AllConflicts(d, Tail(keys), cols, listcols)

\* the rows and arguments validate_cluster_attributes is called with
Nationalities == {"Dutch", "Belgian"}
Occupations == {<<>>, <<"teacher">>, <<"teacher", "mayor">>, <<"mayor">>}
AttributeNames == {"nationality", "occupation"}

Row(col, nm, nat, occ, c) ==
    (col :> nm) @@ [nationality |-> nat, occupation |-> occ, cluster_id |-> c]

\* rows with a scalar attribute only, with a list attribute only, with both
ScalarRows(col) ==
    {Row(col, Str("a"), nat, NULL, c) :
        nat \in {NULL} \cup {Str(v) : v \in Nationalities}, c \in ClusterIdValues}
ListRows(col) ==
    {Row(col, Str("a"), NULL, occ, c) :
        occ \in {NULL} \cup {List(v) : v \in Occupations}, c \in ClusterIdValues}
MixedRows(col) ==
    {Row(col, Str("a"), k[1], k[2], c) :
        k \in {<<Str("Dutch"), List(<<"teacher">>)>>,
               <<Str("Belgian"), List(<<"mayor">>)>>,
               <<Str("Belgian"), List(<<"teacher">>)>>},
        c \in ClusterIdValues}
NamedRows(col) ==
    {Row(col, Str(nm), Str(nat), List(<<"teacher">>), 1) :
        nm \in {"a", "ab"}, nat \in Nationalities}

ListArg(q) == [list |-> TRUE, val |-> q]
BareArg(v) == [list |-> FALSE, val |-> v]
DistinctLists(S) ==
    {<<a>> : a \in S} \cup {q \in S \X S : q[1] # q[2]}
\* filter_cols as a list of one or two columns, a bare string, or None
FilterArgs ==
    {ListArg(q) : q \in DistinctLists(NameFields \cup AttributeNames)}
    \cup {BareArg(v) : v \in NameFields \cup {"nationality", "None"}}

ColumnOrders(col) ==
    {<<col, "nationality", "occupation", "cluster_id">>,
     <<col, "occupation", "nationality", "cluster_id">>}

InitValidate ==
    /\ pc = "validate_cluster_attributes"
    /\ list_columns = <<"occupation">>
    /\ \/ /\ col_name = "canonical_name"
          /\ df \in (SeqsUpTo(ScalarRows(col_name), MaxRecords)
                     \cup SeqsUpTo(ListRows(col_name), MaxRecords)) \ {<<>>}
          /\ columns = <<col_name, "nationality", "occupation", "cluster_id">>
          /\ filter_cols = ListArg(<<"nationality", "occupation">>)
       \/ /\ col_name = "canonical_name"
          /\ df \in SeqsUpTo(MixedRows(col_name), MaxRecords) \ {<<>>}
          /\ columns \in ColumnOrders(col_name)
          /\ filter_cols \in {ListArg(q) : q \in DistinctLists(AttributeNames)}
       \/ /\ col_name \in NameFields
          /\ df \in {<<r1, r2>> : r1 \in NamedRows(col_name), r2 \in NamedRows(col_name)}
          /\ columns = <<col_name, "nationality", "occupation", "cluster_id">>
          /\ filter_cols \in FilterArgs
    /\ sim_matrix = <<>>
    /\ clusterings = <<>>
    /\ linkage_matrix = <<>>
    /\ conflict_records = <<>>
    /\ outcome = "none"
    /\ names = <<>>
    /\ loop = <<>>
    /\ calls = <<>>
    /\ result = NULL
    /\ files = <<>>
    /\ NoText
    /\ NoItems

\* validate_cluster_attributes(df, "cluster_id", list_columns, filter_cols)
ValidateClusterAttributes ==
    /\ pc = "validate_cluster_attributes"
    /\ LET fc == FilterList(filter_cols) IN
       IF NameGuard(fc)
       THEN /\ conflict_records' =
                   AllConflicts(df, GroupKeys(df), ValidatedColumns(columns, fc),
                                list_columns)
            /\ outcome' = "returned"
       ELSE /\ conflict_records' = conflict_records
            /\ outcome' = "AssertionError"
    /\ pc' = "done"
    /\ UNCHANGED <<text, entities, items, batch_size, missing_doc, results,
                 sim_matrix, clusterings, linkage_matrix, df, columns, col_name,
                   filter_cols, list_columns, names, loop, calls, result,
                   files>>

NextValidate == ValidateClusterAttributes

SpecValidate == InitValidate /\ [][NextValidate]_vars

\* ------------------------------ strings ------------------------------------
\* A string is a sequence of characters, a character a one-character string;
\* characters outside ASCII are written by their code points.
CapitalEAcute == "U+00C9"
SmallEAcute == "U+00E9"
CombiningAcute == "U+0301"
NoBreakSpace == "U+00A0"
BlackLetterH == "U+210C"
SmallOWithStroke == "U+00F8"

Uppercase == <<"A", "B", "C", "D", "E", "F", "G", "H", "I", "J", "K", "L", "M",
               "N", "O", "P", "Q", "R", "S", "T", "U", "V", "W", "X", "Y", "Z">>
Lowercase == <<"a", "b", "c", "d", "e", "f", "g", "h", "i", "j", "k", "l", "m",
               "n", "o", "p", "q", "r", "s", "t", "u", "v", "w", "x", "y", "z">>
Digits == {"0", "1", "2", "3", "4", "5", "6", "7", "8", "9"}

\* what \s matches in a str pattern, among the characters used
Whitespace == {" ", "\t", "\n", NoBreakSpace}

\* name.lower(), one character
LowerChar(c) ==
    IF \E k \in DOMAIN Uppercase : Uppercase[k] = c
    THEN Lowercase[CHOOSE k \in DOMAIN Uppercase : Uppercase[k] = c]
    ELSE IF c = CapitalEAcute THEN SmallEAcute ELSE c

Lower(name) == [k \in DOMAIN name |-> LowerChar(name[k])]

\* unicodedata.normalize("NFKD", name): the compatibility decomposition
NFKDChar(c) ==
    IF c = SmallEAcute THEN <<"e", CombiningAcute>>
    ELSE IF c = CapitalEAcute THEN <<"E", CombiningAcute>>
    ELSE IF c = NoBreakSpace THEN <<" ">>
    ELSE IF c = BlackLetterH THEN <<"H">>
    ELSE <<c>>

RECURSIVE NFKD(_)
NFKD(name) ==
    IF name = <<>> THEN <<>> ELSE NFKDChar(Head(name)) \o NFKD(Tail(name))

\* re.sub(r"[^a-z0-9\s]", "", name)
KeptChar(c) ==
    \/ \E k \in DOMAIN Lowercase : Lowercase[k] = c
    \/ c \in Digits
    \/ c \in Whitespace
RemovePunctuation(name) == SelectSeq(name, KeptChar)

\* re.sub(r"\s+", " ", name): every run of whitespace becomes one space
RECURSIVE SkipWhitespace(_)
SkipWhitespace(name) ==
    IF name # <<>> /\ Head(name) \in Whitespace
    THEN SkipWhitespace(Tail(name)) ELSE name

RECURSIVE CollapseWhitespaceMutant(_)
CollapseWhitespaceMutant(name) ==
    IF name = <<>> THEN <<>>
    ELSE IF Head(name) \in Whitespace
         THEN <<Head(name)>> \o CollapseWhitespaceMutant(SkipWhitespace(name))
         ELSE <<Head(name)>> \o CollapseWhitespaceMutant(Tail(name))
RECURSIVE CollapseWhitespace(_)
CollapseWhitespace(name) ==
    IF name = <<>> THEN <<>>
    ELSE IF Head(name) \in Whitespace
         THEN <<" ">> \o CollapseWhitespace(SkipWhitespace(name))
         ELSE <<Head(name)>> \o CollapseWhitespace(Tail(name))

\* name.strip()
RECURSIVE StripRight(_)
StripRight(name) ==
    IF name # <<>> /\ name[Len(name)] \in Whitespace
    THEN StripRight(SubSeq(name, 1, Len(name) - 1)) ELSE name
Strip(name) == StripRight(SkipWhitespace(name))

normalize_name(name) ==
    Strip(CollapseWhitespace(RemovePunctuation(NFKD(Lower(name)))))

\* normalized.split(): the maximal runs of non-whitespace
RECURSIVE FirstToken(_)
FirstToken(name) ==
    IF name = <<>> \/ Head(name) \in Whitespace THEN <<>>
    ELSE <<Head(name)>> \o FirstToken(Tail(name))

RECURSIVE Split(_)
Split(name) ==
    LET rest == SkipWhitespace(name)
        tok == FirstToken(rest)
    IN  IF rest = <<>> THEN <<>>
        ELSE <<tok>> \o Split(SubSeq(rest, Len(tok) + 1, Len(rest)))

\* " ".join(tokens)
RECURSIVE Join(_)
Join(tokens) ==
    IF tokens = <<>> THEN <<>>
    ELSE IF Len(tokens) = 1 THEN tokens[1]
    ELSE tokens[1] \o <<" ">> \o Join(Tail(tokens))

DUTCH_PARTICLES ==
    {<<"v", "a", "n">>, <<"d", "e">>, <<"d", "e", "n">>, <<"d", "e", "r">>,
     <<"t", "e", "n">>, <<"t", "e", "r">>,
     <<"v", "a", "n", " ", "d", "e">>, <<"v", "a", "n", " ", "d", "e", "n">>}

NotParticleMutant(t) == t # <<"v", "a", "n">>
NotParticle(t) == t \notin DUTCH_PARTICLES

\* [t for t in normalized.split() if t not in DUTCH_PARTICLES]
RECURSIVE StripParticlesMutant(_)
StripParticlesMutant(tokens) ==
    IF tokens = <<>> THEN <<>>
    ELSE IF NotParticle(Head(tokens))
         THEN <<Head(tokens)>> \o StripParticlesMutant(Tail(tokens))
         ELSE Tail(tokens)
StripParticles(tokens) == SelectSeq(tokens, NotParticle)

normalize_dutch_name(name) == Join(StripParticles(Split(normalize_name(name))))

\* the strings normalized: up to MaxPieces pieces, one after the other
Pieces ==
    {<<"J">>, <<"b">>, <<SmallEAcute>>, <<SmallOWithStroke>>, <<BlackLetterH>>,
     <<".">>, <<" ">>, <<"\t">>, <<"v", "a", "n">>, <<"d", "e">>,
     <<" ", "v", "a", "n", " ">>}

RECURSIVE Concat(_)
Concat(ps) == IF ps = <<>> THEN <<>> ELSE Head(ps) \o Concat(Tail(ps))

RawStrings == {Concat(ps) : ps \in SeqsUpTo(Pieces, MaxPieces)}

Normalizers == {"normalize_name", "normalize_dutch_name"}

Apply(fn, name) ==
    IF fn = "normalize_name" THEN normalize_name(name)
    ELSE normalize_dutch_name(name)

InitNormalize ==
    /\ pc = "normalize"
    /\ \E x \in RawStrings : names = <<x>>
    /\ sim_matrix = <<>>
    /\ clusterings = <<>>
    /\ linkage_matrix = <<>>
    /\ df = NoDf
    /\ columns = <<>>
    /\ col_name = NULL
    /\ filter_cols = NULL
    /\ list_columns = <<>>
    /\ conflict_records = <<>>
    /\ outcome = "none"
    /\ loop = <<>>
    /\ calls = <<>>
    /\ result = NULL
    /\ files = <<>>
    /\ NoText
    /\ NoItems

\* one call of a normalizer, on the raw string first and then on the value
\* the call before it returned
Normalize(fn) ==
    /\ pc = "normalize"
    /\ Len(calls) < MaxCalls
    /\ LET arg == IF calls = <<>> THEN names[1] ELSE calls[Len(calls)].value
           value == Apply(fn, arg)
       IN  /\ calls' = Append(calls, [fn |-> fn, arg |-> arg, value |-> value])
           /\ result' = value
    /\ outcome' = "returned"
    /\ UNCHANGED <<text, entities, items, batch_size, missing_doc, results,
                 pc, sim_matrix, clusterings, linkage_matrix, df, columns,
                   col_name, filter_cols, list_columns, conflict_records,
                   names, loop, files>>

NextNormalize == \E fn \in Normalizers : Normalize(fn)

SpecNormalize == InitNormalize /\ [][NextNormalize]_vars

\* --------------------------- fuzz.partial_ratio ----------------------------
\* A score is the rational num/den in lowest terms, den > 0.
RECURSIVE GCD(_, _)
GCD(a, b) == IF b = 0 THEN a ELSE GCD(b, a % b)

Score(num, den) ==
    LET g == GCD(num, den) IN [num |-> num \div g, den |-> den \div g]
ScoreLess(a, b) == a.num * b.den < b.num * a.den

MaxScore(S) == CHOOSE s \in S : \A t \in S : ~ScoreLess(s, t)

\* one row of the longest-common-subsequence table of s1 against s2
RECURSIVE LcsRow(_, _, _, _)
LcsRow(prev, c, s2, cur) ==
    LET j == Len(cur) + 1
        up == prev[j]
        left == IF j = 1 THEN 0 ELSE cur[j - 1]
        diag == IF j = 1 THEN 0 ELSE prev[j - 1]
        cell == IF s2[j] = c THEN diag + 1 ELSE IF up < left THEN left ELSE up
    IN  IF j > Len(s2) THEN cur ELSE LcsRow(prev, c, s2, Append(cur, cell))

RECURSIVE LcsRows(_, _, _)
LcsRows(s1, s2, prev) ==
    IF s1 = <<>> THEN prev
    ELSE LcsRows(Tail(s1), s2, LcsRow(prev, Head(s1), s2, <<>>))

LcsLength(s1, s2) ==
    IF s2 = <<>> THEN 0
    ELSE LcsRows(s1, s2, [j \in DOMAIN s2 |-> 0])[Len(s2)]

\* fuzz.ratio: 100 * (1 - indel_distance / (len1 + len2)), the indel
\* distance being len1 + len2 - 2 * lcs
ratio(s1, s2) ==
    IF s1 = <<>> /\ s2 = <<>> THEN Score(100, 1)
    ELSE Score(200 * LcsLength(s1, s2), Len(s1) + Len(s2))

\* s[k] of Python, k counted from 0 and a negative k from the end
At(s, k) == IF k < 0 THEN s[Len(s) + k + 1] ELSE s[k + 1]

\* _partial_ratio_impl(s1, s2), len(s1) <= len(s2): the best ratio of s1
\* against the prefixes of s2 shorter than s1, the windows of s2 as long as s1
\* and the suffixes of s2 not longer than s1; a window is tried only if the
\* character at its moving end occurs in s1
partial_ratio_impl(s1, s2) ==
    LET s1_char_set == Range(s1)
        len1 == Len(s1)
        len2 == Len(s2)
        prefixes == {SubSeq(s2, 1, i) :
                        i \in {h \in 1..(len1 - 1) : At(s2, h - 1) \in s1_char_set}}
        windows == {SubSeq(s2, i + 1, i + len1) :
                        i \in {h \in 0..(len2 - len1 - 1) :
                                  At(s2, h + len1 - 1) \in s1_char_set}}
        suffixes == {SubSeq(s2, i + 1, len2) :
                        i \in {h \in (len2 - len1)..(len2 - 1) :
                                  At(s2, h) \in s1_char_set}}
    IN  MaxScore({Score(0, 1)}
                 \cup {ratio(s1, w) : w \in prefixes \cup windows \cup suffixes})

\* the "if not s1 and not s2" case of partial_ratio
BothEmptyMutant(s1, s2) == FALSE
BothEmpty(s1, s2) == s1 = <<>> /\ s2 = <<>>

\* the second pass of partial_ratio, for strings of equal length
SecondPassMutant(s1, s2, res) == FALSE
SecondPass(s1, s2, res) == res # Score(100, 1) /\ Len(s1) = Len(s2)

\* fuzz.partial_ratio(s1, s2)
partial_ratio(s1, s2) ==
    IF BothEmpty(s1, s2) THEN Score(100, 1)
    ELSE
        LET shorter == IF Len(s1) <= Len(s2) THEN s1 ELSE s2
            longer == IF Len(s1) <= Len(s2) THEN s2 ELSE s1
            res == partial_ratio_impl(shorter, longer)
            res2 == partial_ratio_impl(longer, shorter)
        IN  IF SecondPass(s1, s2, res) /\ ScoreLess(res, res2) THEN res2 ELSE res

\* the raw names scored: up to MaxPieces pieces, one after the other
ScorePieces == {<<"a">>, <<".">>, <<"d", "e">>}

ScoreStrings == {Concat(ps) : ps \in SeqsUpTo(ScorePieces, MaxPieces)}

InitScore ==
    /\ pc = "score"
    /\ \E x \in ScoreStrings : names = <<x>>
    /\ sim_matrix = <<>>
    /\ clusterings = <<>>
    /\ linkage_matrix = <<>>
    /\ df = NoDf
    /\ columns = <<>>
    /\ col_name = NULL
    /\ filter_cols = NULL
    /\ list_columns = <<>>
    /\ conflict_records = <<>>
    /\ outcome = "none"
    /\ loop = <<>>
    /\ calls = <<>>
    /\ result = NULL
    /\ files = <<>>
    /\ NoText
    /\ NoItems

\* the scorer on the normalized forms of the name and of a second name, in
\* both orders, and on the normalized form of each against itself
ScoreNames(y) ==
    /\ pc = "score"
    /\ LET a == normalize_dutch_name(names[1])
           b == normalize_dutch_name(y)
       IN  /\ names' = <<names[1], y>>
           /\ result' = [a |-> a, b |-> b,
                         ab |-> partial_ratio(a, b), ba |-> partial_ratio(b, a),
                         aa |-> partial_ratio(a, a), bb |-> partial_ratio(b, b)]
    /\ pc' = "done"
    /\ outcome' = "returned"
    /\ UNCHANGED <<text, entities, items, batch_size, missing_doc, results,
                 sim_matrix, clusterings, linkage_matrix, df, columns, col_name,
                   filter_cols, list_columns, conflict_records, loop, calls,
                   files>>

NextScore == \E y \in ScoreStrings : ScoreNames(y)

SpecScore == InitScore /\ [][NextScore]_vars

\* ------------------------ compute_similarity_matrix ------------------------
\* The names given to compute_similarity_matrix: strings, or NULL for a
\* record without a name (NaN in the DataFrame column).
MatrixNames ==
    {Str(<<"d", "e", " ", "a">>), Str(<<"a", "d">>), Str(<<".">>),
     Str(<<"d", "e", "a">>), Str(<<"a", "d", "a">>), NULL}

\* np.zeros((n, n))
Zeros(n) == [i \in 0..(n - 1) |-> [j \in 0..(n - 1) |-> Score(0, 1)]]

\* the pair the loops "for i in range(n): for j in range(i + 1, n)" reach
\* after (i, j); i = n when the loops are over
RECURSIVE NextPair(_, _, _)
NextPair(i, j, n) ==
    IF i >= n THEN [i |-> n, j |-> n]
    ELSE IF j + 1 < n THEN [i |-> i, j |-> j + 1]
    ELSE NextPair(i + 1, i + 1, n)

FirstPair(n) == NextPair(0, 0, n)

\* sim_matrix[i, j] = sim_matrix[j, i] = score
SetPairMutant(M, i, j, score) == [M EXCEPT ![i][j] = score]
SetPair(M, i, j, score) == [M EXCEPT ![i][j] = score, ![j][i] = score]

InitMatrix ==
    /\ pc = "pairs"
    /\ names \in SeqsUpTo(MatrixNames, MaxN)
    /\ sim_matrix = Zeros(Len(names))
    /\ loop = FirstPair(Len(names))
    /\ calls = <<>>
    /\ result = NULL
    /\ files = <<>>
    /\ NoText
    /\ NoItems
    /\ clusterings = <<>>
    /\ linkage_matrix = <<>>
    /\ df = NoDf
    /\ columns = <<>>
    /\ col_name = NULL
    /\ filter_cols = NULL
    /\ list_columns = <<>>
    /\ conflict_records = <<>>
    /\ outcome = "none"

\* one pass of the inner loop body: name.lower() raises AttributeError on a
\* name that is not a string, names[i] being normalized before names[j]
ScorePair ==
    /\ pc = "pairs"
    /\ loop.i < Len(names)
    /\ LET i == loop.i
           j == loop.j
       IN  IF names[i + 1] = NULL \/ names[j + 1] = NULL
           THEN /\ outcome' = "AttributeError"
                /\ pc' = "failed"
                /\ UNCHANGED <<sim_matrix, loop, calls>>
           ELSE LET score == partial_ratio(normalize_dutch_name(names[i + 1].str),
                                           normalize_dutch_name(names[j + 1].str))
                IN  /\ sim_matrix' = SetPair(sim_matrix, i, j, score)
                    /\ calls' = Append(calls, [i |-> i, j |-> j])
                    /\ loop' = NextPair(i, j, Len(names))
                    /\ UNCHANGED <<pc, outcome>>
    /\ UNCHANGED <<text, entities, items, batch_size, missing_doc, results,
                 clusterings, linkage_matrix, df, columns, col_name, filter_cols,
                   list_columns, conflict_records, names, result, files>>

\* return sim_matrix
ReturnMatrix ==
    /\ pc = "pairs"
    /\ loop.i >= Len(names)
    /\ result' = sim_matrix
    /\ pc' = "done"
    /\ outcome' = "returned"
    /\ UNCHANGED <<text, entities, items, batch_size, missing_doc, results,
                 sim_matrix, clusterings, linkage_matrix, df, columns, col_name,
                   filter_cols, list_columns, conflict_records, names, loop, calls,
                   files>>

NextMatrix == ScorePair \/ ReturnMatrix

SpecMatrix == InitMatrix /\ [][NextMatrix]_vars

\* ------------------------------ group_entities -----------------------------
\* The names of the entities in the input file.
JanVanDerBerg ==
    <<"J", "a", "n", " ", "v", "a", "n", " ", "d", "e", "r", " ", "B", "e",
      "r", "g">>
JVanDerBerg ==
    <<"J", ".", " ", "v", "a", "n", " ", "d", "e", "r", " ", "B", "e", "r",
      "g">>
AnnaDeVries ==
    <<"A", "n", "n", "a", " ", "d", "e", " ", "V", "r", "i", "e", "s">>

GroupNames == {JanVanDerBerg, JVanDerBerg, AnnaDeVries}

\* clustering_threshold, in hundredths: the default 0.15, and 0.5
GroupThresholds == {15, 50}

\* compute_similarity_matrix(names), every name a string
RECURSIVE FillMatrix(_, _, _)
FillMatrix(M, nms, pair) ==
    IF pair.i >= Len(nms) THEN M
    ELSE LET score == partial_ratio(normalize_dutch_name(nms[pair.i + 1].str),
                                    normalize_dutch_name(nms[pair.j + 1].str))
         IN  FillMatrix(SetPair(M, pair.i, pair.j, score), nms,
                        NextPair(pair.i, pair.j, Len(nms)))

SimilarityMatrix(nms) == FillMatrix(Zeros(Len(nms)), nms, FirstPair(Len(nms)))

\* a common multiple of the denominators of the scores of a matrix
RECURSIVE CommonDen(_, _)
CommonDen(sim, cells) ==
    IF cells = {} THEN 1
    ELSE LET c == CHOOSE q \in cells : TRUE
             rest == CommonDen(sim, cells \ {c})
             den == sim[c[1]][c[2]].den
         IN  (rest * den) \div GCD(rest, den)

\* dist_matrix = 1 - sim_matrix / 100.0 with a zero diagonal, for scores that
\* are fractions: every entry in units of 1 / (100 * K)
ScoreDistMatrixMutant(sim, n, K) ==
    [i \in 0..(n - 1) |->
        [j \in 0..(n - 1) |->
            IF i = j THEN Entry(0, 0)
            ELSE Entry(sim[i][j].num * (K \div sim[i][j].den), 0)]]
ScoreDistMatrix(sim, n, K) ==
    [i \in 0..(n - 1) |->
        [j \in 0..(n - 1) |->
            IF i = j THEN Entry(0, 0)
            ELSE LET s == sim[i][j]
                 IN  Entry((100 * s.den - s.num) * (K \div s.den),
                           IF s.den = 1 THEN RoundErr(s.num) * K ELSE 0)]]

\* linkage on that matrix, the merge distances brought back to hundredths
ScoreLinkage(sim, n) ==
    LET K == CommonDen(sim, (0..(n - 1)) \X (0..(n - 1)))
        Z == LinkageOf(ScoreDistMatrix(sim, n, K), n)
    IN  [k \in DOMAIN Z |-> [Z[k] EXCEPT !.dist.den = @ * K]]

\* df["cluster_id"] = cluster_ids
SetClusterIdMutant(d, cluster_ids) ==
    [k \in DOMAIN d |-> ("cluster_id" :> cluster_ids[0]) @@ d[k]]
SetClusterId(d, cluster_ids) ==
    [k \in DOMAIN d |-> ("cluster_id" :> cluster_ids[k - 1]) @@ d[k]]

\* the columns after an assignment to column c
AddColumn(cols, c) == IF c \in Range(cols) THEN cols ELSE Append(cols, c)

\* entity_type and data_dir of the call, and the three paths made of them:
\* file_path of load_entity_data, output_file and output_viz of group_entities
entity_type == "people"
data_dir == "./data/entities"
FilePath == <<data_dir, entity_type, ".csv">>
OutputFileMutant == <<"./data/structured_data", "clustered_people", ".csv">>
OutputFile == <<data_dir, entity_type, ".csv">>
OutputViz == <<data_dir, entity_type, "_dendrogram_highres.pdf">>

GroupRows(col) == {(col :> Str(nm)) : nm \in GroupNames}

InitGroup ==
    /\ pc = "load"
    /\ col_name \in NameFields
    /\ \E rows \in SeqsUpTo(GroupRows(col_name), MaxN) :
          files = (FilePath :> [columns |-> <<col_name>>, rows |-> rows])
    /\ NoText
    /\ NoItems
    /\ df = NoDf
    /\ columns = <<>>
    /\ names = <<>>
    /\ sim_matrix = <<>>
    /\ clusterings = <<>>
    /\ linkage_matrix = <<>>
    /\ filter_cols = NULL
    /\ list_columns = <<>>
    /\ conflict_records = <<>>
    /\ outcome = "none"
    /\ loop = <<>>
    /\ calls = <<>>
    /\ result = NULL

\* df = load_entity_data(entity_type, data_dir): pd.read_csv of the file
LoadEntityData ==
    /\ pc = "load"
    /\ df' = files[FilePath].rows
    /\ columns' = files[FilePath].columns
    /\ result' = df'
    /\ calls' = Append(calls, "load")
    /\ pc' = "similarity"
    /\ outcome' = "none"
    /\ UNCHANGED <<text, entities, items, batch_size, missing_doc, results,
                 sim_matrix, clusterings, linkage_matrix, col_name, filter_cols,
                   list_columns, conflict_records, names, loop, files>>

\* names = df[col_name].tolist(); compute_similarity_matrix(names)
ComputeSimilarityMatrix ==
    /\ pc = "similarity"
    /\ names' = [k \in DOMAIN df |-> df[k][col_name]]
    /\ sim_matrix' = SimilarityMatrix(names')
    /\ result' = sim_matrix'
    /\ calls' = Append(calls, "similarity")
    /\ pc' = "cluster"
    /\ UNCHANGED <<text, entities, items, batch_size, missing_doc, results,
                 clusterings, linkage_matrix, df, columns, col_name, filter_cols,
                   list_columns, conflict_records, outcome, loop, files>>

\* hierarchical_clustering(similarity_matrix, clustering_threshold)
ClusterNames(clustering_threshold) ==
    /\ pc = "cluster"
    /\ calls' = Append(calls, "cluster")
    /\ IF HasObservations(Size(sim_matrix))
       THEN /\ linkage_matrix' = ScoreLinkage(sim_matrix, Size(sim_matrix))
            /\ result' = <<FCluster(linkage_matrix', clustering_threshold),
                           linkage_matrix'>>
            /\ clusterings' = (clustering_threshold :> result'[1])
            /\ pc' = "save"
            /\ outcome' = outcome
       ELSE /\ outcome' = "ValueError"
            /\ pc' = "failed"
            /\ UNCHANGED <<linkage_matrix, clusterings, result>>
    /\ UNCHANGED <<text, entities, items, batch_size, missing_doc, results,
                 sim_matrix, df, columns, col_name, filter_cols, list_columns,
                   conflict_records, names, loop, files>>

\* save_clustered_data(df, cluster_ids, col_name, output_path=output_file):
\* the two columns are assigned on the caller's df, which is written to the
\* file the input was loaded from and returned
SaveClusteredData ==
    /\ pc = "save"
    /\ df' = WithClusterRep(SetClusterId(df, result[1]), col_name)
    /\ columns' = AddColumn(AddColumn(columns, "cluster_id"), "cluster_rep")
    /\ files' = (OutputFile :> [columns |-> columns', rows |-> df']) @@ files
    /\ result' = df'
    /\ calls' = Append(calls, "save")
    /\ pc' = "visualize"
    /\ UNCHANGED <<text, entities, items, batch_size, missing_doc, results,
                 sim_matrix, clusterings, linkage_matrix, col_name, filter_cols,
                   list_columns, conflict_records, outcome, names, loop>>

\* visualize_dendogram(df, linkage_matrix, col_name, output_file=output_viz),
\* then "return df_with_cluster"
VisualizeDendogram ==
    /\ pc = "visualize"
    /\ calls' = Append(calls, "visualize")
    /\ files' = (OutputViz :> "pdf") @@ files
    /\ pc' = "done"
    /\ outcome' = "returned"
    /\ UNCHANGED <<text, entities, items, batch_size, missing_doc, results,
                 sim_matrix, clusterings, linkage_matrix, df, columns, col_name,
                   filter_cols, list_columns, conflict_records, names, loop,
                   result>>

\* plt.savefig(output_file) fails (the directory is not writable, the disk is
\* full): the exception leaves group_entities
RenderFails ==
    /\ pc = "visualize"
    /\ calls' = Append(calls, "visualize")
    /\ pc' = "failed"
    /\ outcome' = "OSError"
    /\ UNCHANGED <<text, entities, items, batch_size, missing_doc, results,
                 sim_matrix, clusterings, linkage_matrix, df, columns, col_name,
                   filter_cols, list_columns, conflict_records, names, loop,
                   result, files>>

\* group_entities is run again on the same data_dir and entity_type
Runs == Cardinality({k \in DOMAIN calls : calls[k] = "load"})

RunAgain ==
    /\ pc \in {"done", "failed"}
    /\ Runs < MaxCalls
    /\ pc' = "load"
    /\ UNCHANGED <<text, entities, items, batch_size, missing_doc, results,
                 sim_matrix, clusterings, linkage_matrix, df, columns, col_name,
                   filter_cols, list_columns, conflict_records, outcome, names,
                   loop, calls, result, files>>

NextGroup ==
    \/ LoadEntityData
    \/ ComputeSimilarityMatrix
    \/ \E t \in GroupThresholds : ClusterNames(t)
    \/ SaveClusteredData
    \/ VisualizeDendogram
    \/ RenderFails
    \/ RunAgain

SpecGroup == InitGroup /\ [][NextGroup]_vars

\* ------------------------------ text_to_bio -------------------------------
\* archive/preprocess.py

\* text.find(t, idx): the lowest index >= idx where t occurs in text, or -1
Find(txt, t, idx) ==
    LET hits == {k \in idx..(Len(txt) - Len(t)) :
                    SubSeq(txt, k + 1, k + Len(t)) = t}
    IN  IF hits = {} THEN -1
        ELSE CHOOSE k \in hits : \A h \in hits : k <= h

\* the loop that builds offsets: (start, end) of every token, searching from
\* the end of the token before
RECURSIVE Offsets(_, _, _)
Offsets(txt, toks, idx) ==
    IF toks = <<>> THEN <<>>
    ELSE LET start == Find(txt, Head(toks), idx)
             end == start + Len(Head(toks))
         IN  <<<<start, end>>>> \o Offsets(txt, Tail(toks), end)

\* the labels 'O', 'B-' + ent_type and 'I-' + ent_type
Outside == <<"O">>
Begin(ent_type) == <<"B-", ent_type>>
Inside(ent_type) == <<"I-", ent_type>>

\* the test of the inner loop: the token (ts, te) and the span [s, e) overlap
Overlaps(off, ent) == ~(off[2] <= ent.start \/ off[1] >= ent.end)

\* the inner loop for one entity: an overlapping token still labelled 'O'
\* becomes B-, an overlapping token that already has a label becomes I-
MarkEntity(labels, offsets, ent) ==
    [i \in DOMAIN labels |->
        IF ~Overlaps(offsets[i], ent) THEN labels[i]
        ELSE IF labels[i] = Outside THEN Begin(ent.type)
        ELSE Inside(ent.type)]

\* the outer loop over entities, in order
RECURSIVE MarkEntities(_, _, _)
MarkEntities(labels, offsets, ents) ==
    IF ents = <<>> THEN labels
    ELSE MarkEntities(MarkEntity(labels, offsets, Head(ents)), offsets, Tail(ents))

text_to_bio(txt, ents) ==
    LET tokens == Split(txt)
        offsets == Offsets(txt, tokens, 0)
        labels == [i \in DOMAIN tokens |-> Outside]
    IN  [tokens |-> tokens, labels |-> MarkEntities(labels, offsets, ents)]

MaxText == 3       \* characters of a text
MaxEntities == 2   \* entities of a text

TextChars == {"a", " "}
EntityTypes == {"PER", "LOC"}

\* the entity spans that lie in a text
Spans(txt) ==
    {[start |-> s, end |-> e, type |-> ty] :
        s \in 0..Len(txt), e \in 0..Len(txt), ty \in EntityTypes}

InitBio ==
    /\ pc = "text_to_bio"
    /\ text \in SeqsUpTo(TextChars, MaxText)
    /\ entities \in SeqsUpTo({sp \in Spans(text) : sp.start < sp.end}, MaxEntities)
    /\ result = NULL
    /\ outcome = "none"
    /\ NoItems
    /\ df = NoDf
    /\ columns = <<>>
    /\ col_name = NULL
    /\ filter_cols = NULL
    /\ list_columns = <<>>
    /\ conflict_records = <<>>
    /\ sim_matrix = <<>>
    /\ clusterings = <<>>
    /\ linkage_matrix = <<>>
    /\ names = <<>>
    /\ loop = <<>>
    /\ calls = <<>>
    /\ files = <<>>

TextToBio ==
    /\ pc = "text_to_bio"
    /\ result' = text_to_bio(text, entities)
    /\ outcome' = "returned"
    /\ pc' = "done"
    /\ UNCHANGED <<text, entities, items, batch_size, missing_doc, results,
                   sim_matrix, clusterings, linkage_matrix, df, columns, col_name,
                   filter_cols, list_columns, conflict_records, names, loop,
                   calls, files>>

NextBio == TextToBio

SpecBio == InitBio /\ [][NextBio]_vars

\* ------------------------------ run_inference.main ------------------------
\* scripts/run_inference.py, the batch loop, and PromptRunner.run_batch of
\* scripts/prompt_runner.py

MaxItems == 3       \* input items
MaxBatchSize == 2   \* cfg["batch_size"]

\* a Python int and None
PyInt(v) == [int |-> v]
None == [none |-> TRUE]

\* the items read_dataframe can return: two bulletins under one identifier,
\* and one whose row["recordIdentifier"] is the falsy 0
ItemTexts == {"bulletin a", "bulletin b"}
Items ==
    {[id |-> Str("r1"), text |-> t] : t \in ItemTexts}
        \cup {[id |-> PyInt(0), text |-> "bulletin a"]}

\* cfg["model"]
model == "gpt-4o-mini"

\* out_file = Path(cfg["out_dir"]) / f"{cfg['run_name']}.jsonl"
out_file == <<"data/silver_labels", "run", ".jsonl">>

\* what out_file holds before main opens it for appending
EarlierLines == {<<>>, <<"line of an earlier run">>}

\* the truth value of x in "x or y"
Truthy(x) == x # PyInt(0) /\ x # Str("") /\ x # None

\* items[i : i + cfg["batch_size"]]
BatchMutant(i) ==
    SubSeq(items, i + 1,
           IF i + batch_size + 1 < Len(items) THEN i + batch_size + 1 ELSE Len(items))
Batch(i) ==
    SubSeq(items, i + 1,
           IF i + batch_size < Len(items) THEN i + batch_size ELSE Len(items))

\* ids = [x.get("id") or str(idx + i) for idx, x in enumerate(batch)]
Ids(batch, i) ==
    [k \in DOMAIN batch |->
        IF Truthy(batch[k].id) THEN batch[k].id ELSE Str(ToString((k - 1) + i))]

\* PromptRunner.run returns validated_response: the validated dict, or None
\* when the output of the model did not validate
Extraction == [dict |-> "BulletinExtraction"]
RunOutputs == {Extraction, None}

\* PromptRunner.run_batch: one run per item, collected in a list
run_batch(batch) == {List(v) : v \in [DOMAIN batch -> RunOutputs]}

\* the value main compares responses with.  run_batch above never returns
\* it; main is modelled against a runner that may, which is the wider case
NullResponse == Str("null")
Responses(batch) == run_batch(batch) \cup {NullResponse}

\* the try / except around model_validate and model_dump: what (parsed,
\* valid) can become for one raw output.  Any exception gives (None, False)
Parsed(raw_out) ==
    IF raw_out = Extraction
    THEN {[parsed |-> Extraction, valid |-> TRUE], [parsed |-> None, valid |-> FALSE]}
    ELSE {[parsed |-> None, valid |-> FALSE]}

\* zip(ids, batch, responses): as many triples as the shortest of the three
ZipLen(ids, batch, responses) ==
    LET a == IF Len(ids) < Len(batch) THEN Len(ids) ELSE Len(batch)
    IN  IF Len(responses) < a THEN Len(responses) ELSE a

\* the records the inner loop builds for one batch, in order; parsed[k] is
\* the outcome of the try block for the k-th triple
OutRecords(ids, batch, responses, parsed) ==
    [k \in 1..ZipLen(ids, batch, responses) |->
        [id |-> ids[k], text |-> batch[k].text, raw_output |-> responses[k],
         parsed |-> parsed[k].parsed, valid |-> parsed[k].valid, model |-> model]]

\* the outcomes of the try block for every triple of a batch
ParsedChoices(responses) ==
    {p \in [DOMAIN responses -> UNION {Parsed(r) : r \in RunOutputs}] :
        \A k \in DOMAIN responses : p[k] \in Parsed(responses[k])}

InitInference ==
    /\ pc = "main"
    /\ items \in SeqsUpTo(Items, MaxItems)
    /\ batch_size \in 1..MaxBatchSize
    /\ missing_doc = <<>>
    /\ results = <<>>
    /\ \E earlier \in EarlierLines : files = (out_file :> earlier)
    /\ loop = [i |-> 0]
    /\ calls = <<>>
    /\ result = NULL
    /\ outcome = "none"
    /\ NoText
    /\ df = NoDf
    /\ columns = <<>>
    /\ col_name = NULL
    /\ filter_cols = NULL
    /\ list_columns = <<>>
    /\ conflict_records = <<>>
    /\ sim_matrix = <<>>
    /\ clusterings = <<>>
    /\ linkage_matrix = <<>>
    /\ names = <<>>

\* a call of runner.run_batch for the batch at i, as logged in calls
Submission(i, responses) == [i |-> i, responses |-> responses]

\* the rest of the loop body once responses is not 'null': one record per
\* triple, written to the file and appended to results
WriteRecords(ids, batch, responses) ==
    \E parsed \in ParsedChoices(responses.list) :
        LET out == OutRecords(ids, batch, responses.list, parsed)
        IN  /\ files' = (out_file :> (files[out_file] \o out)) @@ files
            /\ results' = results \o out
            /\ UNCHANGED missing_doc

\* one iteration of the loop over range(0, len(items), batch_size)
ProcessBatch ==
    /\ pc = "main"
    /\ loop.i < Len(items)
    /\ LET i == loop.i
           batch == Batch(i)
           ids == Ids(batch, i)
       IN  \E first \in Responses(batch) :
              IF first = NullResponse
              THEN \E second \in Responses(batch) :
                      /\ calls' = calls \o <<Submission(i, first), Submission(i, second)>>
                      /\ IF second = NullResponse
                         THEN /\ missing_doc' = Append(missing_doc, ids)
                              /\ UNCHANGED <<files, results>>
                         ELSE WriteRecords(ids, batch, second)
              ELSE /\ calls' = Append(calls, Submission(i, first))
                   /\ WriteRecords(ids, batch, first)
    /\ loop' = [i |-> loop.i + batch_size]
    /\ UNCHANGED <<pc, outcome, result, items, batch_size, text, entities,
                   sim_matrix, clusterings, linkage_matrix, df, columns, col_name,
                   filter_cols, list_columns, conflict_records, names>>

\* a call of run_batch raises (the request to the model fails), on the first
\* submission or on the second: main ends with the exception
Raised == [raised |-> TRUE]

RunBatchRaises ==
    /\ pc = "main"
    /\ loop.i < Len(items)
    /\ \/ calls' = Append(calls, Submission(loop.i, Raised))
       \/ calls' = calls \o <<Submission(loop.i, NullResponse), Submission(loop.i, Raised)>>
    /\ outcome' = "Exception"
    /\ pc' = "failed"
    /\ UNCHANGED <<loop, result, items, batch_size, missing_doc, results, files,
                   text, entities, sim_matrix, clusterings, linkage_matrix, df,
                   columns, col_name, filter_cols, list_columns, conflict_records,
                   names>>

\* the loop is over: the file is closed and the two counts are printed
Finish ==
    /\ pc = "main"
    /\ loop.i >= Len(items)
    /\ outcome' = "returned"
    /\ pc' = "done"
    /\ UNCHANGED <<loop, calls, result, items, batch_size, missing_doc, results,
                   files, text, entities, sim_matrix, clusterings, linkage_matrix,
                   df, columns, col_name, filter_cols, list_columns,
                   conflict_records, names>>

NextInference == ProcessBatch \/ RunBatchRaises \/ Finish

SpecInference == InitInference /\ [][NextInference]_vars

\* ------------------------------ properties ---------------------------------
Records == DOMAIN sim_matrix
Done == DOMAIN clusterings
ClusterOf(T, c) == {i \in DOMAIN T : T[i] = c}

\* C1: after hierarchical_clustering on the matrix of n >= 2 records, at any
\* threshold, every record index carries exactly one cluster id (none is left
\* at the initial 0), and the clusters are non-empty, pairwise disjoint and
\* together cover the full record set.
C1_Partition ==
    \A t \in Done :
        LET T == clusterings[t]
            ids == {T[i] : i \in DOMAIN T}
        IN  /\ DOMAIN T = Records
            /\ \A i \in Records : T[i] >= 1
            /\ UNION {ClusterOf(T, c) : c \in ids} = Records
            /\ \A c, d \in ids : c # d => ClusterOf(T, c) \cap ClusterOf(T, d) = {}
            /\ Cardinality(ids) <= Size(sim_matrix)

\* a three-record matrix clustered into two clusters, one of them a pair
C1_Witness ==
    \E t \in Done :
        /\ Size(sim_matrix) = 3
        /\ Cardinality({clusterings[t][i] : i \in Records}) = 2

\* C2: for one similarity matrix and thresholds t1 < t2, two records that
\* share a cluster id at t1 also share a cluster id at t2.
C2_MonotonicThreshold ==
    \A t1, t2 \in Done :
        t1 < t2 =>
            \A i, j \in Records :
                clusterings[t1][i] = clusterings[t1][j]
                    => clusterings[t2][i] = clusterings[t2][j]

\* two thresholds, a pair merged at the lower one and a strictly coarser
\* clustering at the higher one
C2_Witness ==
    \E t1, t2 \in Done :
        /\ t1 < t2
        /\ \E i, j \in Records : i # j /\ clusterings[t1][i] = clusterings[t1][j]
        /\ \E i, j \in Records :
              /\ clusterings[t1][i] # clusterings[t1][j]
              /\ clusterings[t2][i] = clusterings[t2][j]

\* C3: after find_representative every record has a non-null cluster_rep,
\* records sharing a cluster id carry the same cluster_rep, and it is the
\* name-field value of greatest length among the cluster's records, the first
\* such record in input order winning a tie.
C3_Representative ==
    pc = "done" /\ outcome = "returned" /\ "cluster_rep" \in Range(columns) =>
        /\ \A i \in DOMAIN df : df[i].cluster_rep # NULL
        /\ \A i, j \in DOMAIN df :
              df[i].cluster_id = df[j].cluster_id => df[i].cluster_rep = df[j].cluster_rep
        /\ \A i \in DOMAIN df :
              \E k \in GroupIdx(df, df[i].cluster_id) :
                  /\ df[i].cluster_rep = df[k][col_name]
                  /\ \A j \in GroupIdx(df, df[i].cluster_id) :
                        /\ Len(df[j][col_name].str) <= Len(df[k][col_name].str)
                        /\ Len(df[j][col_name].str) = Len(df[k][col_name].str) => k <= j

\* a cluster whose two longest names tie in length and differ, behind a
\* shorter name: the earlier of the two was chosen
C3_Witness ==
    /\ pc = "done" /\ outcome = "returned" /\ "cluster_rep" \in Range(columns)
    /\ \E i, j, k \in DOMAIN df :
          /\ i < j /\ j < k
          /\ df[i].cluster_id = df[j].cluster_id /\ df[j].cluster_id = df[k].cluster_id
          /\ Len(df[i][col_name].str) < Len(df[j][col_name].str)
          /\ Len(df[j][col_name].str) = Len(df[k][col_name].str)
          /\ df[j][col_name] # df[k][col_name]
          /\ df[i].cluster_rep = df[j][col_name]
          /\ \A m \in GroupIdx(df, df[i].cluster_id) :
                Len(df[m][col_name].str) <= Len(df[j][col_name].str)

\* ---- validate_cluster_attributes: the report, cluster by cluster ----
Validated == pc = "done" /\ outcome = "returned" /\ filter_cols # NULL
Requested == Range(FilterList(filter_cols)) \cap Range(columns)
ScalarAttrs == {c \in Requested : c \notin Range(list_columns) /\ c # "cluster_id"}
ListAttrs == {c \in Requested : c \in Range(list_columns)}
ClusterIdsOf(d) == {d[i].cluster_id : i \in DOMAIN d}
RecordsFor(cid, col) ==
    {p \in DOMAIN conflict_records :
        conflict_records[p].cluster_id = cid /\ conflict_records[p].attribute = col}
NonNullRows(cid, col) == {i \in GroupIdx(df, cid) : df[i][col] # NULL}
FirstRowWith(cid, col, v) ==
    CHOOSE i \in NonNullRows(cid, col) :
        /\ df[i][col] = Str(v)
        /\ \A j \in NonNullRows(cid, col) : df[j][col] = Str(v) => i <= j
KthOf(S, k) == CHOOSE i \in S : Cardinality({j \in S : j <= i}) = k
Pos(q, v) == CHOOSE k \in DOMAIN q : q[k] = v

\* C4: for a validated scalar attribute a cluster gets a conflict record if
\* and only if its non-null values hold more than one distinct value, and then
\* exactly one record, whose conflicting_values are the distinct values, each
\* once, in the order of their first row.
C4_ScalarConflict ==
    Validated =>
        \A cid \in ClusterIdsOf(df), col \in ScalarAttrs :
            LET distinct == {df[i][col].str : i \in NonNullRows(cid, col)}
                recs == RecordsFor(cid, col)
            IN  /\ Cardinality(recs) = IF Cardinality(distinct) > 1 THEN 1 ELSE 0
                /\ \A p \in recs :
                      LET cv == conflict_records[p].conflicting_values IN
                      /\ Len(cv) = Cardinality(distinct)
                      /\ Range(cv) = distinct
                      /\ \A a, b \in DOMAIN cv :
                            a < b => FirstRowWith(cid, col, cv[a])
                                        < FirstRowWith(cid, col, cv[b])

\* Belgian, Dutch, Belgian in one cluster: one record listing Belgian, Dutch
C4_Witness ==
    /\ Validated
    /\ \E p \in DOMAIN conflict_records :
          /\ conflict_records[p].attribute = "nationality"
          /\ conflict_records[p].conflicting_values = <<"Belgian", "Dutch">>
          /\ Cardinality(NonNullRows(conflict_records[p].cluster_id, "nationality")) >= 3

\* C5: for a validated list-valued attribute with at least one non-null value
\* in the cluster, a conflict record is emitted if and only if the
\* intersection of the records' value sets is empty; its payload holds one
\* set per contributing record, in record order.
C5_ListConflict ==
    Validated =>
        \A cid \in ClusterIdsOf(df), col \in ListAttrs :
            LET rows == NonNullRows(cid, col)
                sets == {Range(df[i][col].list) : i \in rows}
                common == {e \in UNION sets : \A x \in sets : e \in x}
                recs == RecordsFor(cid, col)
            IN  rows # {} =>
                /\ Cardinality(recs) = IF common = {} THEN 1 ELSE 0
                /\ \A p \in recs :
                      LET cv == conflict_records[p].conflicting_values IN
                      /\ Len(cv) = Cardinality(rows)
                      /\ \A k \in DOMAIN cv :
                            cv[k] = Range(df[KthOf(rows, k)][col].list)

\* disjoint non-empty occupation lists in one cluster, reported in row order,
\* next to a cluster whose lists share an element and is not reported
C5_Witness ==
    /\ Validated
    /\ \E p \in DOMAIN conflict_records :
          /\ conflict_records[p].attribute = "occupation"
          /\ conflict_records[p].conflicting_values = <<{"mayor"}, {"teacher"}>>
    /\ \E cid \in ClusterIdsOf(df) :
          /\ RecordsFor(cid, "occupation") = {}
          /\ {df[i].occupation : i \in NonNullRows(cid, "occupation")}
                = {List(<<"teacher">>), List(<<"teacher", "mayor">>)}

\* C6: when every record of a cluster is null for a validated attribute, the
\* call returns normally and the report has no record for that cluster and
\* attribute, for scalar and for list-valued attributes.
C6_AllNullSkipped ==
    pc = "done" /\ filter_cols # NULL /\ "name" \notin Range(FilterList(filter_cols)) =>
        /\ outcome = "returned"
        /\ \A cid \in ClusterIdsOf(df), col \in ScalarAttrs \cup ListAttrs :
              NonNullRows(cid, col) = {} => RecordsFor(cid, col) = {}

\* a cluster of two records, both null for the list-valued attribute, while
\* the other cluster conflicts on it
C6_Witness ==
    /\ Validated
    /\ "occupation" \in ListAttrs
    /\ \E cid \in ClusterIdsOf(df) :
          /\ Cardinality(GroupIdx(df, cid)) >= 2
          /\ NonNullRows(cid, "occupation") = {}
    /\ conflict_records # <<>>

\* C7: with 'name' among filter_cols, as a list element or as a bare string,
\* the call fails on the assertion and returns no conflict report.
C7_NameRejected ==
    pc = "done" /\ filter_cols # NULL /\ "name" \in Range(FilterList(filter_cols)) =>
        outcome = "AssertionError" /\ conflict_records = <<>>

\* filter_cols = "name", a bare string, on a DataFrame whose rows disagree
C7_Witness ==
    /\ pc = "done"
    /\ filter_cols = BareArg("name")
    /\ outcome = "AssertionError"
    /\ \E i, j \in DOMAIN df : df[i][col_name] # df[j][col_name]

\* C8: a request to validate the configured name field (col_name, e.g.
\* canonical_name) is rejected, whatever the column is called.
C8_NameFieldRejected ==
    pc = "done" /\ filter_cols # NULL /\ col_name \in Range(FilterList(filter_cols)) =>
        outcome = "AssertionError"

\* C9 as stated: clusters appear in the report in the order in which their
\* ids are first met in the rows.
C9_FirstEncounterOrder ==
    Validated =>
        \A p, q \in DOMAIN conflict_records :
            p < q /\ conflict_records[p].cluster_id # conflict_records[q].cluster_id =>
                KthOf(GroupIdx(df, conflict_records[p].cluster_id), 1)
                    < KthOf(GroupIdx(df, conflict_records[q].cluster_id), 1)

\* C9 amended: clusters appear in the report in ascending order of cluster
\* id, whatever the order of the rows.
C9_SortedClusterOrder ==
    Validated =>
        \A p, q \in DOMAIN conflict_records :
            p < q => conflict_records[p].cluster_id <= conflict_records[q].cluster_id

\* two clusters conflict and the first row belongs to the one reported last
C9_Witness ==
    /\ Validated
    /\ \E p, q \in DOMAIN conflict_records :
          /\ p < q
          /\ conflict_records[p].cluster_id < conflict_records[q].cluster_id
          /\ df[1].cluster_id = conflict_records[q].cluster_id

\* C10 as stated: within one cluster the conflict records follow the order of
\* the attributes in filter_cols.
C10_FilterOrder ==
    Validated =>
        \A p, q \in DOMAIN conflict_records :
            p < q /\ conflict_records[p].cluster_id = conflict_records[q].cluster_id =>
                Pos(FilterList(filter_cols), conflict_records[p].attribute)
                    < Pos(FilterList(filter_cols), conflict_records[q].attribute)

\* C10 amended: within one cluster the conflict records follow the order of
\* the columns of the DataFrame, whatever the order in filter_cols.
C10_ColumnOrder ==
    Validated =>
        \A p, q \in DOMAIN conflict_records :
            p < q /\ conflict_records[p].cluster_id = conflict_records[q].cluster_id =>
                Pos(columns, conflict_records[p].attribute)
                    < Pos(columns, conflict_records[q].attribute)

\* one cluster conflicts on two attributes that filter_cols names in the
\* opposite order to the columns
C10_Witness ==
    /\ Validated
    /\ \E p, q \in DOMAIN conflict_records :
          /\ p < q
          /\ conflict_records[p].cluster_id = conflict_records[q].cluster_id
          /\ Pos(FilterList(filter_cols), conflict_records[q].attribute)
                < Pos(FilterList(filter_cols), conflict_records[p].attribute)

\* C12 as stated: on a matrix of n <= 1 records hierarchical_clustering
\* returns, every record a singleton cluster, and raises nothing.
C12_DegenerateSingletons ==
    Size(sim_matrix) <= 1 /\ outcome # "none" =>
        /\ outcome = "returned"
        /\ \A t \in Done : \A i, j \in Records :
              i # j => clusterings[t][i] # clusterings[t][j]

\* C14 as stated: a threshold outside [0, 1] (in hundredths, outside 0..100)
\* never yields a cluster assignment.
C14_ThresholdRejected == \A t \in Done : t \in 0..100

\* the leaves under a node of the labelled linkage matrix
RECURSIVE Members(_, _, _)
Members(Z, n, node) ==
    IF node < n THEN {node}
    ELSE Members(Z, n, Z[node - n + 1].x) \cup Members(Z, n, Z[node - n + 1].y)

\* the row at which records i and j are first joined
MergeRow(Z, n, i, j) ==
    CHOOSE k \in DOMAIN Z :
        /\ {i, j} \subseteq Members(Z, n, n + k - 1)
        /\ \A h \in 1..(k - 1) : ~({i, j} \subseteq Members(Z, n, n + h - 1))

\* sums, over a set of record pairs, of 100 - sim and of its rounding
RECURSIVE SumDistance(_)
SumDistance(P) ==
    IF P = {} THEN 0
    ELSE LET p == CHOOSE q \in P : TRUE
         IN  (100 - sim_matrix[p[1]][p[2]]) + SumDistance(P \ {p})
RECURSIVE SumRoundErr(_)
SumRoundErr(P) ==
    IF P = {} THEN 0
    ELSE LET p == CHOOSE q \in P : TRUE
         IN  RoundErr(sim_matrix[p[1]][p[2]]) + SumRoundErr(P \ {p})

\* d <= t for a merge distance d and a threshold of t hundredths
Within(d, t) == d.num < t * d.den \/ (d.num = t * d.den /\ d.eps <= 0)

\* C20: every merge distance of the linkage matrix is the mean of
\* 1 - sim/100 over the pairs of records the merge joins (average linkage on
\* d = 1 - sim/100), and at every threshold two distinct records share a
\* cluster id if and only if the distance of the merge that first joins them is
\* <= the threshold, a distance equal to the threshold included.
C20_InclusiveCut ==
    Done # {} =>
        LET n == Size(sim_matrix)
            Z == linkage_matrix
        IN  /\ Len(Z) = n - 1
            /\ \A k \in DOMAIN Z :
                  LET P == Members(Z, n, Z[k].x) \X Members(Z, n, Z[k].y)
                  IN  /\ Z[k].dist.den = Cardinality(P)
                      /\ Z[k].dist.num = SumDistance(P)
                      /\ Z[k].dist.eps = SumRoundErr(P)
            /\ \A t \in Done : \A i, j \in Records :
                  i # j =>
                      (clusterings[t][i] = clusterings[t][j]
                          <=> Within(Z[MergeRow(Z, n, i, j)].dist, t))

\* a merge of a cluster of two with a third record whose distance is exactly
\* the threshold, not zero, and the three records share a cluster id
C20_Witness ==
    \E t \in Done \ {0} : \E k \in DOMAIN linkage_matrix :
        /\ linkage_matrix[k].dist.den = 2
        /\ linkage_matrix[k].dist.num = t * 2
        /\ linkage_matrix[k].dist.eps = 0
        /\ \A i, j \in Records : clusterings[t][i] = clusterings[t][j]

\* C15: a normalizer applied to the value it returned returns that value
\* unchanged, for normalize_name and for normalize_dutch_name.
C15_Idempotent ==
    \A k \in DOMAIN calls :
        k > 1 /\ "fn" \in DOMAIN calls[k] /\ calls[k].fn = calls[k - 1].fn =>
            /\ calls[k].arg = calls[k - 1].value
            /\ calls[k].value = calls[k].arg

\* normalize_dutch_name called on its own output, the first call having removed
\* a particle and changed the string
C15_Witness ==
    /\ pc = "normalize"
    /\ Len(calls) >= 2
    /\ calls[1].fn = "normalize_dutch_name" /\ calls[2].fn = "normalize_dutch_name"
    /\ calls[1].value # <<>>
    /\ Len(calls[1].value) + 2 < Len(normalize_name(calls[1].arg))

Scored == pc = "done" /\ result # NULL /\ "ab" \in DOMAIN result

\* C16: the score of two normalized names does not depend on their order,
\* whatever their lengths and also when one or both are empty.
C16_Symmetric == Scored => result.ab = result.ba

\* two normalized names of equal length whose one-directional scores differ,
\* scored below 100
C16_Witness ==
    /\ Scored
    /\ Len(result.a) = Len(result.b) /\ Len(result.a) >= 3
    /\ partial_ratio_impl(result.a, result.b) # partial_ratio_impl(result.b, result.a)
    /\ result.ab # Score(100, 1)

\* C17: the score of the normalized form of a non-empty name against itself
\* is 100, also when the normalized form is the empty string.
C17_Reflexive ==
    Scored => /\ names[1] # <<>> => result.aa = Score(100, 1)
              /\ names[2] # <<>> => result.bb = Score(100, 1)

\* a non-empty name made of a particle and punctuation only, whose normalized
\* form is empty, scored against itself
C17_Witness ==
    /\ Scored
    /\ Len(names[1]) >= 3 /\ result.a = <<>>
    /\ "." \in Range(names[1]) /\ "d" \in Range(names[1])
    /\ result.aa = Score(100, 1)

\* C13 as stated: with a name that is not a string among the names, no pair
\* is ever scored and no matrix is returned, wherever the name stands and
\* also when it is the only one.
C13_FailFast ==
    (\E k \in DOMAIN names : names[k] = NULL) => calls = <<>> /\ pc # "done"

\* C19: compute_similarity_matrix returns an n x n matrix with a zero
\* diagonal whose entries (i, j) and (j, i), i < j, both hold the score of
\* normalize_dutch_name(names[i]) and normalize_dutch_name(names[j]), every
\* entry within 0..100, and it has called the scorer once for each unordered
\* pair, n(n-1)/2 times in all.
C19_SimilarityMatrix ==
    pc = "done" =>
        LET n == Len(names)
            idx == 0..(n - 1)
        IN  /\ DOMAIN result = idx
            /\ \A i \in idx : DOMAIN result[i] = idx /\ result[i][i] = Score(0, 1)
            /\ \A i, j \in idx :
                  /\ result[i][j].num >= 0
                  /\ result[i][j].num <= 100 * result[i][j].den
                  /\ i < j =>
                        /\ result[i][j] = partial_ratio(normalize_dutch_name(names[i + 1].str),
                                                        normalize_dutch_name(names[j + 1].str))
                        /\ result[j][i] = result[i][j]
                        /\ Cardinality({k \in DOMAIN calls : calls[k] = [i |-> i, j |-> j]}) = 1
            /\ \A k \in DOMAIN calls : calls[k].i < calls[k].j
            /\ 2 * Len(calls) = n * (n - 1)

\* a matrix of three names returned with three different scores off the
\* diagonal, one of them not a whole number
C19_Witness ==
    /\ pc = "done" /\ Len(names) = 3 /\ Len(calls) = 3
    /\ Cardinality({result[0][1], result[0][2], result[1][2]}) = 3
    /\ \E i, j \in 0..2 : result[i][j].den > 1

\* C11: group_entities on the names Jan van der Berg, J. van der Berg and
\* Anna de Vries with the threshold 0.15 gives the first two records one
\* cluster id and the representative "Jan van der Berg", and the third record
\* a cluster id of its own.
C11_Scenario ==
    /\ pc \in {"visualize", "done"}
    /\ names = <<Str(JanVanDerBerg), Str(JVanDerBerg), Str(AnnaDeVries)>>
    /\ DOMAIN clusterings = {15}
    => /\ df[1].cluster_id = df[2].cluster_id
       /\ df[3].cluster_id # df[1].cluster_id
       /\ df[1].cluster_rep = Str(JanVanDerBerg)
       /\ df[2].cluster_rep = Str(JanVanDerBerg)
       /\ df[3].cluster_rep = Str(AnnaDeVries)

\* the three names clustered at 0.15, the first run on the input file
C11_Witness ==
    /\ pc = "done" /\ Runs = 1
    /\ names = <<Str(JanVanDerBerg), Str(JVanDerBerg), Str(AnnaDeVries)>>
    /\ DOMAIN clusterings = {15}
    /\ sim_matrix[0][1] = Score(1000, 11)
    /\ Range(columns) = {col_name, "cluster_id", "cluster_rep"}

\* C18 as stated: save_clustered_data (and the find_representative it calls)
\* leaves the caller's DataFrame as it was, no column added or overwritten.
C18_InputUnchanged ==
    [][pc = "save" => df' = df /\ columns' = columns]_vars

\* C18 amended: save_clustered_data assigns cluster_id and cluster_rep on the
\* caller's DataFrame itself, adding the columns or overwriting them where
\* they exist, keeps the rows and every other column as they were, and
\* returns that same DataFrame.
C18_AnnotatedInPlace ==
    [][pc = "save" =>
        /\ result' = df'
        /\ Len(df') = Len(df)
        /\ Range(columns') = Range(columns) \cup {"cluster_id", "cluster_rep"}
        /\ \A k \in DOMAIN df :
              /\ DOMAIN df'[k] = Range(columns')
              /\ df'[k].cluster_id = result[1][k - 1]
              /\ \A c \in Range(columns) \ {"cluster_id", "cluster_rep"} :
                    df'[k][c] = df[k][c]]_vars

\* the second run on a file of two or more records: the DataFrame loaded
\* already had both columns, they were assigned again, and the returned value
\* is the caller's DataFrame
C18_Witness ==
    /\ pc = "visualize" /\ Runs = 2
    /\ Len(df) >= 2
    /\ result = df
    /\ Len(columns) = 3
    /\ \E k \in DOMAIN df : df[k].cluster_id # df[1].cluster_id

Normalized(fn) == {k \in DOMAIN calls : calls[k].fn = fn}

\* the tokens of a string: its maximal runs of characters other than " "
RECURSIVE TokensOf(_, _)
TokensOf(s, tok) ==
    IF s = <<>> THEN IF tok = <<>> THEN <<>> ELSE <<tok>>
    ELSE IF Head(s) = " "
         THEN (IF tok = <<>> THEN <<>> ELSE <<tok>>) \o TokensOf(Tail(s), <<>>)
         ELSE TokensOf(Tail(s), Append(tok, Head(s)))

SingleParticles ==
    {<<"v", "a", "n">>, <<"d", "e">>, <<"d", "e", "n">>, <<"d", "e", "r">>,
     <<"t", "e", "n">>, <<"t", "e", "r">>}

SingleSpaced(s) ==
    /\ s # <<>> => s[1] # " " /\ s[Len(s)] # " "
    /\ \A k \in 1..(Len(s) - 1) : ~(s[k] = " " /\ s[k + 1] = " ")

\* C21: the value of normalize_dutch_name has no token among van, de, den,
\* der, ten, ter; its tokens are the tokens of normalize_name of the same
\* argument that are not among these, in their order, and they are joined by
\* single spaces.
C21_ParticlesStripped ==
    \A k \in Normalized("normalize_dutch_name") :
        LET kept == TokensOf(calls[k].value, <<>>)
            all == TokensOf(normalize_name(calls[k].arg), <<>>)
            idx == {h \in DOMAIN all : all[h] \notin SingleParticles}
        IN  /\ \A m \in DOMAIN kept : kept[m] \notin SingleParticles
            /\ Len(kept) = Cardinality(idx)
            /\ \A m \in DOMAIN kept :
                  \E h \in idx : /\ Cardinality({g \in idx : g <= h}) = m
                                 /\ kept[m] = all[h]
            /\ SingleSpaced(calls[k].value)
            /\ \A m \in 1..(Len(calls[k].value) - 1) :
                  calls[k].value[m] \notin Whitespace \ {" "}

\* a particle deleted between two tokens that are kept, in their order
C21_Witness ==
    /\ calls # <<>> /\ calls[1].fn = "normalize_dutch_name"
    /\ Len(TokensOf(normalize_name(calls[1].arg), <<>>)) = 3
    /\ TokensOf(normalize_name(calls[1].arg), <<>>)[2] = <<"v", "a", "n">>
    /\ Len(TokensOf(calls[1].value, <<>>)) = 2
    /\ TokensOf(calls[1].value, <<>>)[1] # TokensOf(calls[1].value, <<>>)[2]

\* the letter a character stands for: an ASCII letter in lower case, a letter
\* with a diacritic as its base letter; <<>> for any other character
BaseLetter(c) ==
    IF c \in Range(Lowercase) \cup Range(Uppercase) THEN <<LowerChar(c)>>
    ELSE IF c \in {SmallEAcute, CapitalEAcute} THEN <<"e">>
    ELSE IF c = SmallOWithStroke THEN <<"o">>
    ELSE <<>>

RECURSIVE BaseLetters(_)
BaseLetters(s) ==
    IF s = <<>> THEN <<>> ELSE BaseLetter(Head(s)) \o BaseLetters(Tail(s))

IsLetter(c) == c \in Range(Lowercase)

\* C22 as stated: the value of normalize_name holds only a-z, 0-9 and single
\* spaces, none leading or trailing, and its letters are the letters of the
\* argument in lower case, a letter with a diacritic as its base letter.
C22_NormalizedForm ==
    \A k \in Normalized("normalize_name") :
        /\ \A m \in DOMAIN calls[k].value :
              calls[k].value[m] \in Range(Lowercase) \cup Digits \cup {" "}
        /\ SingleSpaced(calls[k].value)
        /\ SelectSeq(calls[k].value, IsLetter) = BaseLetters(calls[k].arg)

\* C23: a call of hierarchical_clustering leaves every cell of the similarity
\* matrix it is given at its value, the first call and every later call at
\* another threshold alike.
C23_InputUnchanged == [][sim_matrix' = sim_matrix]_vars

\* two clusterings of one matrix of three records whose similarities are not
\* all zero
C23_Witness ==
    /\ Cardinality(Done) >= 2
    /\ Size(sim_matrix) = 3
    /\ \E i, j \in Records : i # j /\ sim_matrix[i][j] = 85

\* C25 as stated: no conflict record names a cluster of exactly one record.
C25_SingletonNoConflict ==
    Validated =>
        \A p \in DOMAIN conflict_records :
            Cardinality(GroupIdx(df, conflict_records[p].cluster_id)) # 1

Steps == <<"load", "similarity", "cluster", "save", "visualize">>
StepNo(step) == CHOOSE k \in DOMAIN Steps : Steps[k] = step
Annotated(file) ==
    /\ {"cluster_id", "cluster_rep"} \subseteq Range(file.columns)
    /\ \A k \in DOMAIN file.rows :
          {"cluster_id", "cluster_rep"} \subseteq DOMAIN file.rows[k]

\* C27: every run of group_entities takes the steps load, similarity matrix,
\* clustering, write CSV, render dendrogram in this order, as far as it gets;
\* the CSV written holds the annotated records and is the file the input was
\* loaded from, it is written before the dendrogram is rendered, and it stays
\* written when rendering fails.
C27_StepOrder ==
    /\ \A k \in DOMAIN calls :
          IF k = 1 THEN calls[k] = "load"
          ELSE calls[k] = "load" \/ StepNo(calls[k]) = StepNo(calls[k - 1]) + 1
    /\ calls # <<>> /\ calls[Len(calls)] \in {"save", "visualize"} =>
          /\ files[FilePath] = [columns |-> columns, rows |-> df]
          /\ Annotated(files[FilePath])
    /\ Runs = 1 /\ calls[Len(calls)] \in {"load", "similarity", "cluster"} =>
          /\ ~Annotated(files[FilePath]) \/ files[FilePath].rows = <<>>
          /\ OutputViz \notin DOMAIN files
    /\ Runs = 1 /\ (pc = "visualize" \/ outcome = "OSError") =>
          OutputViz \notin DOMAIN files

\* the first run on three records: clustering succeeded, rendering failed, and
\* the input file holds the annotated records
C27_Witness ==
    /\ Runs = 1 /\ pc = "failed" /\ outcome = "OSError"
    /\ Len(files[FilePath].rows) = 3
    /\ Annotated(files[FilePath])
    /\ calls = Steps

\* ---- C24 (text_to_bio)
\* the tokens of the returned value that overlap the span of an entity,
\* as indices in text order
OverlappingTokens(ent) ==
    LET offsets == Offsets(text, Split(text), 0)
    IN  {i \in DOMAIN offsets : Overlaps(offsets[i], ent)}

\* the entities whose span the i-th token overlaps
EntitiesAt(i) ==
    {k \in DOMAIN entities : i \in OverlappingTokens(entities[k])}

\* C24: text_to_bio returns one label per whitespace token; a token that
\* overlaps no entity span is labelled O; the first token that overlaps the
\* span of an entity is labelled B-<type> and every later token that overlaps
\* the same span I-<type> (stated for the tokens that overlap one entity only)
C24_BioLabels ==
    pc = "done" =>
        /\ result.tokens = Split(text)
        /\ Len(result.labels) = Len(result.tokens)
        /\ \A i \in DOMAIN result.labels :
              /\ EntitiesAt(i) = {} => result.labels[i] = Outside
              /\ \A k \in DOMAIN entities :
                    EntitiesAt(i) = {k} =>
                        result.labels[i] =
                            IF \A j \in OverlappingTokens(entities[k]) : i <= j
                            THEN Begin(entities[k].type)
                            ELSE Inside(entities[k].type)

\* ---- C26 (run_inference.main)
\* the calls of run_batch made for the batch that starts at i, in order
SubmissionsOf(i) == SelectSeq(calls, LAMBDA c : c.i = i)

\* the batches by number, and the batch an item (counted from 1) falls in
BatchCount == (Len(items) + batch_size - 1) \div batch_size
BatchOf(k) == ((k - 1) \div batch_size) + 1

\* the id main gives the k-th item
ExpectedId(k) ==
    IF Truthy(items[k].id) THEN items[k].id ELSE Str(ToString(k - 1))

\* the items, by position, whose batch is not among the batches in gaveUp
ItemsOutside(gaveUp) ==
    SelectSeq([k \in 1..Len(items) |-> k], LAMBDA k : BatchOf(k) \notin gaveUp)

\* the id lists of the batches in gaveUp, in batch order
IdListsOf(gaveUp) ==
    LET chosen == SelectSeq([b \in 1..BatchCount |-> b], LAMBDA b : b \in gaveUp)
        members(b) == SelectSeq([k \in 1..Len(items) |-> k], LAMBDA k : BatchOf(k) = b)
    IN  [n \in DOMAIN chosen |->
            [m \in DOMAIN members(chosen[n]) |-> ExpectedId(members(chosen[n])[m])]]

\* C26: every batch is submitted at most twice, and twice only when the first
\* response was 'null'; when main has finished, there is a set of given-up
\* batches such that the missing list holds exactly their id lists and the
\* records written (to the list and, appended, to the file) are exactly one
\* per item of the other batches, in input order
C26_WrittenOrMissing ==
    /\ pc \in {"main", "done", "failed"} =>
          \A b \in 1..BatchCount :
              LET s == SubmissionsOf((b - 1) * batch_size)
              IN  /\ Len(s) <= 2
                  /\ Len(s) = 2 => s[1].responses = NullResponse
    /\ pc = "done" =>
          /\ \E gaveUp \in SUBSET (1..BatchCount) :
                /\ missing_doc = IdListsOf(gaveUp)
                /\ LET kept == ItemsOutside(gaveUp)
                   IN  /\ Len(results) = Len(kept)
                       /\ \A n \in DOMAIN kept :
                             /\ results[n].id = ExpectedId(kept[n])
                             /\ results[n].text = items[kept[n]].text
          /\ LET lines == files[out_file]
                 before == Len(lines) - Len(results)
             IN  /\ before >= 0
                 /\ SubSeq(lines, 1, before) \in EarlierLines
                 /\ SubSeq(lines, before + 1, Len(lines)) = results

\* main has finished a run of two batches: the first was answered 'null'
\* twice and given up, the second was answered and written
C26_Witness ==
    /\ pc = "done"
    /\ Len(items) = 3
    /\ batch_size = 2
    /\ Len(missing_doc) = 1
    /\ Len(missing_doc[1]) = 2
    /\ Len(results) = 1
    /\ Len(SubmissionsOf(0)) = 2
    /\ Len(SubmissionsOf(2)) = 1

====
